---- MODULE Spec2Model ----
(***************************************************************************)
(* Model of xbob.boosting weak trainers (core/trainers.py): StumpTrainer   *)
(* and LutTrainer, and of the boosting loop that drives them.              *)
(*                                                                         *)
(* Numbers.  Features and gradients are drawn from small integer ranges,   *)
(* on which numpy's float arithmetic (negation, cumsum, subtraction,       *)
(* absolute value, comparison) is exact.  The only non-integer value the   *)
(* stump code produces is the midpoint (a + b) * 0.5; the model keeps      *)
(* every stump threshold in HALF UNITS (the integer 2 * threshold), so     *)
(* the midpoint is a + b, a plain feature value v is 2 * v, and the test   *)
(* "feature < threshold" is "2 * feature < threshold".                     *)
(*                                                                         *)
(* Arrays are 1-based here and 0-based in the source: position i of the    *)
(* model is index i - 1 of the code; feature indices (selected_indices)    *)
(* and LUT buckets keep the code's 0-based values.                         *)
(***************************************************************************)
EXTENDS Integers, Sequences, FiniteSets, TLC

VARIABLES
    weak_trainer,         \* the trainer object in use: "stump" or "lut"
    pc,                   \* "idle", or the call whose frame is live
    ncalls,               \* compute_weak_trainer calls completed on the trainer
    fea, loss_grad,       \* arguments of the live compute_weak_trainer call
    sorted_id,            \* stump: numpy.argsort's result for each column
    col_res,              \* stump: the locals polarity[i], threshold[i], gain[i]
    fea_grad,             \* LUT: the local fea_grad of the live call
    test_features,        \* argument of the live get_weak_scores call
    weak_scores,          \* its result
    returned,             \* the object the last compute_weak_trainer returned
    prev_machine,         \* fields of the object returned by the call before
                          \* the last one, as they were when it returned
    st_threshold, st_polarity, st_selected_indices,       \* StumpTrainer fields
    lut_num_entries, lut_luts, lut_selection_type,
    lut_selected_indices,                                 \* LutTrainer fields
    state,                \* boosting loop: "INIT", "ROUND", "DONE" ("off": no loop)
    number_of_rounds,     \* the rounds train was asked for
    features,             \* the training feature matrix
    weak_machines,        \* the ensemble: one weak machine per completed round
    weights,              \* and its weight vector (one entry per output)
    eval_features,        \* argument of the live evaluation of the ensemble
    eval_scores           \* its result

frame == <<pc, fea, loss_grad, sorted_id, col_res, fea_grad, test_features, weak_scores>>
stump == <<st_threshold, st_polarity, st_selected_indices>>
lut == <<lut_num_entries, lut_luts, lut_selection_type, lut_selected_indices>>
boost == <<state, number_of_rounds, features, weak_machines, weights,
           eval_features, eval_scores>>
vars == <<weak_trainer, frame, ncalls, returned, prev_machine, stump, lut, boost>>

\* ------------------------------------------------------------------ bounds
MaxSamp == 3      \* most samples (rows) of a training or test matrix
MaxFea == 2       \* most feature dimensions (columns)
MaxVal == 1       \* stump feature values are 0..MaxVal
MaxGrad == 1      \* gradient entries are -MaxGrad..MaxGrad
MaxCalls == 2     \* most compute_weak_trainer calls on one trainer
MaxLutSamp == 2   \* most samples of a matrix of LUT feature codes
MaxEntries == 2   \* largest num_entries of a LutTrainer
MaxOut == 2       \* most outputs (num_op) of a LutTrainer
MaxCodeSamp == 1  \* most samples of a matrix of unchecked feature codes

\* ----------------------------------------------------------------- helpers
Abs(x) == IF x < 0 THEN -x ELSE x

RECURSIVE SumTo(_, _)
\* s[1] + ... + s[i]
SumTo(s, i) == IF i = 0 THEN 0 ELSE SumTo(s, i - 1) + s[i]

Sum(s) == SumTo(s, Len(s))

\* numpy.cumsum
CumSum(s) == [i \in 1..Len(s) |-> SumTo(s, i)]

\* numpy.argmax of a 1-D array: position of the first maximal entry
ArgMaxLast(s) == CHOOSE i \in 1..Len(s) :
    /\ \A j \in 1..Len(s) : s[j] <= s[i]
    /\ \A j \in (i + 1)..Len(s) : s[j] < s[i]

ArgMax(s) == CHOOSE i \in 1..Len(s) :
    /\ \A j \in 1..Len(s) : s[j] <= s[i]
    /\ \A j \in 1..(i - 1) : s[j] < s[i]

\* numpy.argmin of a 1-D array: position of the first minimal entry
ArgMinLast(s) == CHOOSE i \in 1..Len(s) :
    /\ \A j \in 1..Len(s) : s[j] >= s[i]
    /\ \A j \in (i + 1)..Len(s) : s[j] > s[i]

ArgMin(s) == CHOOSE i \in 1..Len(s) :
    /\ \A j \in 1..Len(s) : s[j] >= s[i]
    /\ \A j \in 1..(i - 1) : s[j] > s[i]

\* m[:, d] for a matrix given as a sequence of rows, d a 0-based column index
Column(m, d) == [n \in 1..Len(m) |-> m[n][d + 1]]

\* N x D matrices over a set of values
Matrices(N, D, vals) == [1..N -> [1..D -> vals]]

\* numpy.argsort(fea): a permutation that sorts fea.  The default kind is
\* quicksort, which is not stable: equal values come in an order the
\* implementation picks, so every sorting permutation is a possible result.
ArgSorts(f) == { p \in Permutations(1..Len(f)) :
    \A i \in 1..(Len(f) - 1) : f[p[i]] <= f[p[i + 1]] }

RECURSIVE ColumnArgSorts(_, _)
\* the possible argsort results of the first d columns of m, one per column
ColumnArgSorts(m, d) ==
    IF d = 0 THEN {<<>>}
    ELSE { Append(s, p) : s \in ColumnArgSorts(m, d - 1),
                          p \in ArgSorts(Column(m, d - 1)) }

\* ------------------------------------------------------------ StumpTrainer
\* the threshold of compute_thresh, in half units, from the sorted features
ThresholdNoMidpoint(sfea, opt_id) == 2 * sfea[opt_id]

Threshold(sfea, opt_id) ==
    IF opt_id = Len(sfea)
    THEN 2 * sfea[opt_id]
    ELSE sfea[opt_id] + sfea[opt_id + 1]

\* the polarity of compute_thresh
PolarityFlipped(gain_max, gain_opt) == IF gain_max = gain_opt THEN 1 ELSE -1

PolarityOf(gain_max, gain_opt) == IF gain_max = gain_opt THEN -1 ELSE 1

\* StumpTrainer.compute_thresh(fea, loss_grad), with sid the result of
\* numpy.argsort(fea); opt_id is 1-based
compute_threshFromFirst(f, g, sid) ==
    LET num_samp == Len(f)
        sfea == [i \in 1..num_samp |-> f[sid[i]]]
        sgrad == [i \in 1..num_samp |-> -g[sid[i]]]
        grad_cs == CumSum(sgrad)
        grad_sum == grad_cs[num_samp]
        gain == [i \in 1..num_samp |-> grad_sum - grad_cs[i] + sgrad[i]]
        opt_id == ArgMax([i \in 1..num_samp |-> Abs(gain[i])])
        gain_max == Abs(gain[opt_id])
    IN  [polarity |-> PolarityOf(gain_max, gain[opt_id]),
         threshold |-> Threshold(sfea, opt_id),
         gain |-> gain_max]

compute_thresh(f, g, sid) ==
    LET num_samp == Len(f)
        sfea == [i \in 1..num_samp |-> f[sid[i]]]
        sgrad == [i \in 1..num_samp |-> -g[sid[i]]]
        grad_cs == CumSum(sgrad)
        grad_sum == grad_cs[num_samp]
        gain == [i \in 1..num_samp |-> grad_sum - grad_cs[i]]
        opt_id == ArgMax([i \in 1..num_samp |-> Abs(gain[i])])
        gain_max == Abs(gain[opt_id])
    IN  [polarity |-> PolarityOf(gain_max, gain[opt_id]),
         threshold |-> Threshold(sfea, opt_id),
         gain |-> gain_max]

\* StumpTrainer.get_weak_scores(test_features) of a stump with the given
\* fields: ones, -1 where the selected feature is below the threshold, times
\* the polarity.
StumpScoresNoPolarity(th, pol, sel, t) ==
    [n \in 1..Len(t) |-> IF 2 * t[n][sel + 1] < th THEN -1 ELSE 1]

StumpScoresLE(th, pol, sel, t) ==
    [n \in 1..Len(t) |-> pol * (IF 2 * t[n][sel + 1] <= th THEN -1 ELSE 1)]

StumpScores(th, pol, sel, t) ==
    [n \in 1..Len(t) |-> pol * (IF 2 * t[n][sel + 1] < th THEN -1 ELSE 1)]

\* StumpTrainer.compute_weak_trainer(fea, loss_grad): the fields it assigns.
\* sid[d + 1] is argsort's result for column d.
StumpColumns(f, g, sid) ==
    [i \in 1..Len(f[1]) |-> compute_thresh(Column(f, i - 1), g, sid[i])]

Stump_compute_weak_trainer(f, g, sid) ==
    LET numFea == Len(f[1])
        res == StumpColumns(f, g, sid)
        opt_id == ArgMax([i \in 1..numFea |-> res[i].gain]) - 1
    IN  [threshold |-> res[opt_id + 1].threshold,
         polarity |-> res[opt_id + 1].polarity,
         selected_indices |-> opt_id]

\* the fields of the StumpTrainer object, which compute_weak_trainer returns
\* ("return self")
StumpSelf ==
    [threshold |-> st_threshold, polarity |-> st_polarity,
     selected_indices |-> st_selected_indices]

\* ------------------------------------------------------------- the frames
NoFrame ==
    /\ fea = <<>> /\ loss_grad = <<>> /\ sorted_id = <<>> /\ col_res = <<>>
    /\ fea_grad = <<>>
    /\ test_features = <<>> /\ weak_scores = <<>>

\* the call returns to the caller and its arguments and locals are dropped
Release ==
    /\ pc # "idle"
    /\ pc' = "idle"
    /\ fea' = <<>> /\ loss_grad' = <<>> /\ sorted_id' = <<>> /\ col_res' = <<>>
    /\ fea_grad' = <<>>
    /\ test_features' = <<>> /\ weak_scores' = <<>>
    /\ UNCHANGED <<weak_trainer, ncalls, returned, prev_machine, stump, lut, boost>>

\* --------------------------------------------------- StumpTrainer actions
\* StumpTrainer.__init__
StumpInit ==
    /\ st_threshold = 0 /\ st_polarity = 0 /\ st_selected_indices = 0

\* one call stump.compute_weak_trainer(fea, loss_grad)
StumpCompute ==
    /\ weak_trainer = "stump" /\ pc = "idle" /\ ncalls < MaxCalls
    /\ \E N \in 1..MaxSamp, D \in 1..MaxFea :
       \E f \in Matrices(N, D, 0..MaxVal), g \in [1..N -> (-MaxGrad)..MaxGrad] :
       \E sid \in ColumnArgSorts(f, D) :
          /\ LET m == Stump_compute_weak_trainer(f, g, sid)
             IN  /\ st_threshold' = m.threshold
                 /\ st_polarity' = m.polarity
                 /\ st_selected_indices' = m.selected_indices
          /\ fea' = f /\ loss_grad' = g /\ sorted_id' = sid
          /\ col_res' = StumpColumns(f, g, sid)
    /\ pc' = "trained"
    /\ ncalls' = ncalls + 1
    /\ returned' = "self"
    /\ prev_machine' = IF returned = "self" THEN StumpSelf ELSE <<>>
    /\ UNCHANGED <<weak_trainer, fea_grad, test_features, weak_scores, lut, boost>>

\* one call stump.get_weak_scores(test_features); a matrix with no column
\* selected_indices ends the call in an IndexError and changes nothing
StumpGetWeakScores ==
    /\ weak_trainer = "stump" /\ pc = "idle"
    /\ \E N \in 1..MaxSamp, D \in 1..MaxFea :
       \E t \in Matrices(N, D, 0..MaxVal) :
          /\ st_selected_indices < D
          /\ test_features' = t
          /\ weak_scores' = StumpScores(st_threshold, st_polarity,
                                        st_selected_indices, t)
    /\ pc' = "scored"
    /\ UNCHANGED <<weak_trainer, fea, loss_grad, sorted_id, col_res, fea_grad,
                   ncalls, returned, prev_machine, stump, lut, boost>>

\* no boosting loop runs
NoBoost ==
    /\ state = "off" /\ number_of_rounds = 0 /\ features = <<>>
    /\ weak_machines = <<>> /\ weights = <<>>
    /\ eval_features = <<>> /\ eval_scores = <<>>

\* no LutTrainer takes part in the stump specification
LutAbsent ==
    /\ lut_num_entries = 0 /\ lut_luts = <<>> /\ lut_selection_type = "none"
    /\ lut_selected_indices = <<>>

InitStump ==
    /\ weak_trainer = "stump"
    /\ pc = "idle" /\ ncalls = 0 /\ NoFrame
    /\ returned = "none" /\ prev_machine = <<>>
    /\ StumpInit /\ LutAbsent /\ NoBoost

NextStump == StumpCompute \/ StumpGetWeakScores \/ Release

SpecStump == InitStump /\ [][NextStump]_vars

\* -------------------------------------------------------------- LutTrainer
\* the selection types compute_weak_trainer knows
SelectionTypes == {"indep", "shared"}

\* LutTrainer.__init__(num_entries, selection_type, num_op): luts and
\* selected_indices as constructed
LutOnes(num_entries, num_op) ==
    [b \in 0..(num_entries - 1) |-> [k \in 1..num_op |-> 1]]

LutZeros(num_op) == [k \in 1..num_op |-> 0]

\* LutTrainer.compute_hgrad(loss_grado, fval): for each bucket hi the sum of
\* the gradients of the samples whose feature value is hi
compute_hgrad(loss_grado, fval, num_entries) ==
    [hi \in 0..(num_entries - 1) |->
        Sum([n \in 1..Len(fval) |-> IF fval[n] = hi THEN loss_grado[n] ELSE 0])]

\* sum(abs(hist_grad))
SumAbs(h, num_entries) ==
    Sum([i \in 1..num_entries |-> Abs(h[i - 1])])

\* LutTrainer.compute_fgrad(loss_grad, fea): sum_loss[fi, oi]; row fi + 1 of
\* the result is feature fi, column oi is output oi (1-based)
compute_fgrad(g, f, num_entries) ==
    [fi \in 1..Len(f[1]) |->
        [oi \in 1..Len(g[1]) |->
            0 - SumAbs(compute_hgrad(Column(g, oi - 1), Column(f, fi - 1),
                                     num_entries), num_entries)]]

\* the selected feature index (0-based) of every output: the two branches
\* of compute_weak_trainer; an unknown selection type leaves the field alone
SelectIndepLast(sum_loss, num_op) ==
    [oi \in 1..num_op |->
        ArgMinLast([fi \in 1..Len(sum_loss) |-> sum_loss[fi][oi]]) - 1]

SelectIndep(sum_loss, num_op) ==
    [oi \in 1..num_op |->
        ArgMin([fi \in 1..Len(sum_loss) |-> sum_loss[fi][oi]]) - 1]

SelectSharedLast(sum_loss, num_op) ==
    LET accum_loss == [fi \in 1..Len(sum_loss) |-> Sum(sum_loss[fi])]
        selected_findex == ArgMinLast(accum_loss) - 1
    IN  [oi \in 1..num_op |-> selected_findex]

SelectSharedFirstOutput(sum_loss, num_op) ==
    LET selected_findex == ArgMin([fi \in 1..Len(sum_loss) |-> sum_loss[fi][1]]) - 1
    IN  [oi \in 1..num_op |-> selected_findex]

SelectShared(sum_loss, num_op) ==
    LET accum_loss == [fi \in 1..Len(sum_loss) |-> Sum(sum_loss[fi])]
        selected_findex == ArgMin(accum_loss) - 1
    IN  [oi \in 1..num_op |-> selected_findex]

\* self.luts[fea_grad <= 0.0] = -1: the entries it does not write keep
\* their value
AssignLutsFresh(luts, fg) ==
    [b \in DOMAIN luts |->
        [k \in DOMAIN luts[b] |-> IF fg[b][k] <= 0 THEN -1 ELSE 1]]

AssignLutsStrict(luts, fg) ==
    [b \in DOMAIN luts |->
        [k \in DOMAIN luts[b] |-> IF fg[b][k] < 0 THEN -1 ELSE luts[b][k]]]

AssignLuts(luts, fg) ==
    [b \in DOMAIN luts |->
        [k \in DOMAIN luts[b] |-> IF fg[b][k] <= 0 THEN -1 ELSE luts[b][k]]]

\* LutTrainer.compute_weak_trainer(fea, loss_grad) on a trainer with the
\* given fields: the fields it leaves, and its local fea_grad
Lut_compute_weak_trainer(f, g, num_entries, selection_type, luts, selected) ==
    LET num_op == Len(g[1])
        sum_loss == compute_fgrad(g, f, num_entries)
        sel == IF selection_type = "indep" THEN SelectIndep(sum_loss, num_op)
               ELSE IF selection_type = "shared" THEN SelectShared(sum_loss, num_op)
               ELSE selected
        fg == [b \in 0..(num_entries - 1) |->
                 [oi \in 1..num_op |->
                    IF selection_type \in {"indep", "shared"}
                    THEN compute_hgrad(Column(g, oi - 1), Column(f, sel[oi]),
                                       num_entries)[b]
                    ELSE 0]]
    IN  [luts |-> AssignLuts(luts, fg), selected_indices |-> sel, fea_grad |-> fg]

\* numpy's index into an axis of the given length: a negative index counts
\* from the end (an index outside -length..length - 1 is an IndexError)
PyIndex(i, length) == IF i < 0 THEN i + length ELSE i

\* LutTrainer.get_weak_scores(fset)
LutScoresFirstIndex(luts, selected, fset) ==
    [n \in 1..Len(fset) |->
        [oi \in 1..Len(selected) |->
            luts[PyIndex(fset[n][selected[1] + 1], Cardinality(DOMAIN luts))][oi]]]

LutScores(luts, selected, fset) ==
    [n \in 1..Len(fset) |->
        [oi \in 1..Len(selected) |->
            luts[PyIndex(fset[n][selected[oi] + 1], Cardinality(DOMAIN luts))][oi]]]

\* the fields of the LutTrainer object, which compute_weak_trainer returns
LutSelf == [luts |-> lut_luts, selected_indices |-> lut_selected_indices]

\* ----------------------------------------------------- LutTrainer actions
\* one call lut.compute_weak_trainer(fea, loss_grad), with as many gradient
\* columns as the trainer has outputs
LutCompute ==
    /\ weak_trainer = "lut" /\ pc = "idle" /\ ncalls < MaxCalls
    /\ \E N \in 1..MaxLutSamp, D \in 1..MaxFea :
       \E f \in Matrices(N, D, 0..(lut_num_entries - 1)),
          g \in Matrices(N, Len(lut_selected_indices), (-MaxGrad)..MaxGrad) :
          LET m == Lut_compute_weak_trainer(f, g, lut_num_entries,
                     lut_selection_type, lut_luts, lut_selected_indices)
          IN  /\ lut_luts' = m.luts
              /\ lut_selected_indices' = m.selected_indices
              /\ fea_grad' = m.fea_grad
              /\ fea' = f /\ loss_grad' = g
    /\ pc' = "trained"
    /\ ncalls' = ncalls + 1
    /\ returned' = "self"
    /\ prev_machine' = IF returned = "self" THEN LutSelf ELSE <<>>
    /\ UNCHANGED <<weak_trainer, sorted_id, col_res, test_features, weak_scores,
                   lut_num_entries, lut_selection_type, stump, boost>>

\* one call lut.get_weak_scores(fset); a matrix with no column for a
\* selected index ends the call in an IndexError and changes nothing
LutGetWeakScores ==
    /\ weak_trainer = "lut" /\ pc = "idle"
    /\ \E N \in 1..MaxLutSamp, D \in 1..MaxFea :
       \E t \in Matrices(N, D, 0..(lut_num_entries - 1)) :
          /\ \A k \in DOMAIN lut_selected_indices : lut_selected_indices[k] < D
          /\ test_features' = t
          /\ weak_scores' = LutScores(lut_luts, lut_selected_indices, t)
    /\ pc' = "scored"
    /\ UNCHANGED <<weak_trainer, fea, loss_grad, sorted_id, col_res, fea_grad,
                   ncalls, returned, prev_machine, stump, lut, boost>>

\* LutTrainer.__init__, for every choice of the constructor's arguments
LutInit ==
    /\ \E num_entries \in 1..MaxEntries, num_op \in 1..MaxOut :
          /\ lut_num_entries = num_entries
          /\ lut_luts = LutOnes(num_entries, num_op)
          /\ lut_selected_indices = LutZeros(num_op)
    /\ lut_selection_type \in SelectionTypes

\* a LutTrainer as constructed; the StumpTrainer object is left as
\* constructed and unused
InitLut ==
    /\ weak_trainer = "lut"
    /\ pc = "idle" /\ ncalls = 0 /\ NoFrame
    /\ returned = "none" /\ prev_machine = <<>>
    /\ StumpInit /\ NoBoost
    /\ LutInit

NextLut == LutCompute \/ LutGetWeakScores \/ Release

SpecLut == InitLut /\ [][NextLut]_vars

\* ------------------------------------------------------ either weak trainer
\* a program that constructs one of the two trainers and calls it
InitTrainers == InitStump \/ InitLut

NextTrainers == NextStump \/ NextLut

SpecTrainers == InitTrainers /\ [][NextTrainers]_vars

\* ---------------------------------------- LutTrainer, on any feature codes
\* the feature codes a caller may pass: the buckets 0..num_entries - 1,
\* and one code on either side of them
AnyCodes(num_entries) == (-1)..num_entries

\* one call lut.compute_weak_trainer(fea, loss_grad) on any codes: no line
\* of it indexes by a feature code (compute_hgrad compares, fval == hi), so
\* it completes as on codes in range
LutComputeAnyCodes ==
    /\ weak_trainer = "lut" /\ pc = "idle" /\ ncalls < MaxCalls
    /\ \E N \in 1..MaxCodeSamp, D \in 1..MaxFea :
       \E f \in Matrices(N, D, AnyCodes(lut_num_entries)),
          g \in Matrices(N, Len(lut_selected_indices), (-MaxGrad)..MaxGrad) :
          LET m == Lut_compute_weak_trainer(f, g, lut_num_entries,
                     lut_selection_type, lut_luts, lut_selected_indices)
          IN  /\ lut_luts' = m.luts
              /\ lut_selected_indices' = m.selected_indices
              /\ fea_grad' = m.fea_grad
              /\ fea' = f /\ loss_grad' = g
    /\ pc' = "trained"
    /\ ncalls' = ncalls + 1
    /\ returned' = "self"
    /\ prev_machine' = IF returned = "self" THEN LutSelf ELSE <<>>
    /\ UNCHANGED <<weak_trainer, sorted_id, col_res, test_features, weak_scores,
                   lut_num_entries, lut_selection_type, stump, boost>>

\* the codes get_weak_scores reads: those of the selected columns
CodesRead(selected, fset) ==
    { fset[n][selected[oi] + 1] : n \in 1..Len(fset), oi \in 1..Len(selected) }

\* one call lut.get_weak_scores(fset) on any codes: self.luts[codes, oi]
\* raises IndexError when a code read is outside -num_entries..num_entries - 1
\* and returns the scores otherwise
LutGetWeakScoresAnyCodes ==
    /\ weak_trainer = "lut" /\ pc = "idle"
    /\ \E N \in 1..MaxCodeSamp, D \in 1..MaxFea :
       \E t \in Matrices(N, D, AnyCodes(lut_num_entries)) :
          /\ \A k \in DOMAIN lut_selected_indices : lut_selected_indices[k] < D
          /\ test_features' = t
          /\ IF \E c \in CodesRead(lut_selected_indices, t) :
                   c < 0 - lut_num_entries \/ c >= lut_num_entries
             THEN pc' = "raised" /\ weak_scores' = <<>>
             ELSE /\ pc' = "scored"
                  /\ weak_scores' = LutScores(lut_luts, lut_selected_indices, t)
    /\ UNCHANGED <<weak_trainer, fea, loss_grad, sorted_id, col_res, fea_grad,
                   ncalls, returned, prev_machine, stump, lut, boost>>

NextLutCodes == LutComputeAnyCodes \/ LutGetWeakScoresAnyCodes \/ Release

SpecLutCodes == InitLut /\ [][NextLutCodes]_vars

\* ------------------------------------------- LutTrainer, from construction
\* the selection_type values a caller passes: the two the code knows and
\* the spelling of tests/test_boosting.py, which no branch of
\* compute_weak_trainer tests for
AnySelectionTypes == SelectionTypes \cup {"independent"}

\* LutTrainer(num_entries, selection_type, num_op): __init__ stores its
\* arguments and tests none of them
LutConstruct ==
    /\ weak_trainer = "lut" /\ pc = "idle" /\ lut_selection_type = "none"
    /\ \E num_entries \in 1..MaxEntries, num_op \in 1..MaxOut,
          selection_type \in AnySelectionTypes :
          /\ lut_num_entries' = num_entries
          /\ lut_luts' = LutOnes(num_entries, num_op)
          /\ lut_selection_type' = selection_type
          /\ lut_selected_indices' = LutZeros(num_op)
    /\ UNCHANGED <<weak_trainer, frame, ncalls, returned, prev_machine, stump,
                   boost>>

\* no LutTrainer is constructed yet
InitLutCtor ==
    /\ weak_trainer = "lut"
    /\ pc = "idle" /\ ncalls = 0 /\ NoFrame
    /\ returned = "none" /\ prev_machine = <<>>
    /\ StumpInit /\ NoBoost /\ LutAbsent

NextLutCtor == LutConstruct \/ LutCompute \/ LutGetWeakScores \/ Release

SpecLutCtor == InitLutCtor /\ [][NextLutCtor]_vars

\* --------------------------------------------- BoostedMachine and Boosting
\* The ensemble and the boosting loop, after sections 3, 4.4 and 4.5 of the
\* design: the loop's rounds fit the weak trainer above to a gradient, store
\* a copy of its fields as the round's weak machine, and append it with the
\* round's weight.  The loss functions and the weight search are not part
\* of the model: a round's gradient is any gradient matrix and its weight
\* any weight vector.
MaxRounds == 2       \* largest number_of_rounds
MaxWeight == 1       \* weights are -MaxWeight..MaxWeight
MaxBoostSamp == 2    \* most rows of the training set and of an evaluated batch
MaxGradCells == 2    \* most entries (rows x outputs) of a round's gradient

\* outputs of the ensemble: 1 for a stump, num_op for a LUT
BoostOutputs == IF weak_trainer = "stump" THEN 1 ELSE Len(lut_selected_indices)

\* get_weak_scores of a stored weak machine, as an N x K matrix
MachineScores(m, t) ==
    IF m.kind = "stump"
    THEN LET sc == StumpScores(m.threshold, m.polarity, m.selected_indices, t)
         IN  [n \in 1..Len(t) |-> <<sc[n]>>]
    ELSE LutScores(m.luts, m.selected_indices, t)

\* the weak machine a round stores: a copy of the fields of the object
\* compute_weak_trainer returned
StumpSnapshot(r) ==
    [kind |-> "stump", threshold |-> r.threshold, polarity |-> r.polarity,
     selected_indices |-> r.selected_indices]

LutSnapshot(r) ==
    [kind |-> "lut", luts |-> r.luts, selected_indices |-> r.selected_indices]

\* step 6 of a round: the pair goes to the end of the ensemble
AppendReplacingLast(seq, x) ==
    IF seq = <<>> THEN <<x>> ELSE [seq EXCEPT ![Len(seq)] = x]

AppendRound(seq, x) == Append(seq, x)

RECURSIVE EnsembleScores(_, _, _, _)
\* BoostedMachine evaluation of a batch t: the first r rounds' weighted weak
\* scores, added round by round to a zero matrix
EnsembleScores(ms, ws, r, t) ==
    IF r = 0
    THEN [n \in 1..Len(t) |-> [k \in 1..BoostOutputs |-> 0]]
    ELSE LET acc == EnsembleScores(ms, ws, r - 1, t)
             sc == MachineScores(ms[r], t)
         IN  [n \in 1..Len(t) |->
                [k \in 1..BoostOutputs |-> acc[n][k] + ws[r][k] * sc[n][k]]]

\* BoostedMachine evaluation of a single sample
SingleScore(ms, ws, row) == EnsembleScores(ms, ws, Len(ms), <<row>>)[1]

\* one round of train
Round ==
    /\ state \in {"INIT", "ROUND"}
    /\ Len(weak_machines) < number_of_rounds
    /\ \E g \in Matrices(Len(features), BoostOutputs, (-MaxGrad)..MaxGrad),
          w \in [1..BoostOutputs -> (-MaxWeight)..MaxWeight] :
          /\ \/ /\ weak_trainer = "stump"
                /\ \E sid \in ColumnArgSorts(features, Len(features[1])) :
                      LET m == Stump_compute_weak_trainer(
                                  features, Column(g, 0), sid)
                      IN  /\ st_threshold' = m.threshold
                          /\ st_polarity' = m.polarity
                          /\ st_selected_indices' = m.selected_indices
                          /\ weak_machines' =
                                AppendRound(weak_machines, StumpSnapshot(m))
                /\ prev_machine' = IF returned = "self" THEN StumpSelf ELSE <<>>
                /\ UNCHANGED lut
             \/ /\ weak_trainer = "lut"
                /\ LET m == Lut_compute_weak_trainer(features, g, lut_num_entries,
                               lut_selection_type, lut_luts, lut_selected_indices)
                   IN  /\ lut_luts' = m.luts
                       /\ lut_selected_indices' = m.selected_indices
                       /\ weak_machines' =
                             AppendRound(weak_machines, LutSnapshot(m))
                /\ prev_machine' = IF returned = "self" THEN LutSelf ELSE <<>>
                /\ UNCHANGED <<stump, lut_num_entries, lut_selection_type>>
          /\ weights' = AppendRound(weights, w)
    /\ state' = "ROUND"
    /\ ncalls' = ncalls + 1
    /\ returned' = "self"
    /\ UNCHANGED <<weak_trainer, frame, number_of_rounds, features,
                   eval_features, eval_scores>>

\* the loop has run number_of_rounds rounds: train returns the ensemble
Finish ==
    /\ state \in {"INIT", "ROUND"}
    /\ Len(weak_machines) = number_of_rounds
    /\ state' = "DONE"
    /\ UNCHANGED <<weak_trainer, frame, ncalls, returned, prev_machine, stump,
                   lut, number_of_rounds, features, weak_machines, weights,
                   eval_features, eval_scores>>

\* the feature codes the trainer in use reads
BoostVals ==
    IF weak_trainer = "stump" THEN 0..MaxVal ELSE 0..(lut_num_entries - 1)

\* batch evaluation of the trained ensemble
EvaluateBatch ==
    /\ state = "DONE" /\ eval_features = <<>>
    /\ \E N \in 1..MaxBoostSamp :
       \E t \in Matrices(N, Len(features[1]), BoostVals) :
          /\ eval_features' = t
          /\ eval_scores' = EnsembleScores(weak_machines, weights,
                                           Len(weak_machines), t)
    /\ UNCHANGED <<weak_trainer, frame, ncalls, returned, prev_machine, stump,
                   lut, state, number_of_rounds, features, weak_machines, weights>>

\* the evaluation returns and its argument and result are dropped
EvaluateReturn ==
    /\ state = "DONE" /\ eval_features # <<>>
    /\ eval_features' = <<>> /\ eval_scores' = <<>>
    /\ UNCHANGED <<weak_trainer, frame, ncalls, returned, prev_machine, stump,
                   lut, state, number_of_rounds, features, weak_machines, weights>>

\* train(features, targets, loss_function, weak_trainer, number_of_rounds)
\* is entered with a freshly constructed trainer and an empty ensemble
InitBoost ==
    /\ weak_trainer \in {"stump", "lut"}
    /\ pc = "idle" /\ ncalls = 0 /\ NoFrame
    /\ returned = "none" /\ prev_machine = <<>>
    /\ StumpInit
    /\ IF weak_trainer = "lut" THEN LutInit ELSE LutAbsent
    /\ state = "INIT"
    /\ number_of_rounds \in 0..MaxRounds
    /\ \E N \in 1..MaxBoostSamp, D \in 1..MaxFea :
          /\ N * BoostOutputs <= MaxGradCells
          /\ features \in Matrices(N, D, BoostVals)
    /\ weak_machines = <<>> /\ weights = <<>>
    /\ eval_features = <<>> /\ eval_scores = <<>>

NextBoost == Round \/ Finish \/ EvaluateBatch \/ EvaluateReturn

SpecBoost == InitBoost /\ [][NextBoost]_vars

\* ---------------------------------------------------- stump properties
\* what the properties say about the live compute_weak_trainer call of the
\* stump, written from the sorted order the call used
StumpTrained == weak_trainer = "stump" /\ pc = "trained"

NumSamp == Len(fea)
NumFea == Len(fea[1])

\* feature d of the sample at sorted position i, and its weight -gradient
SortedFea(d, i) == fea[sorted_id[d + 1][i]][d + 1]
SortedWeight(d, i) == 0 - loss_grad[sorted_id[d + 1][i]]

RECURSIVE WeightUpTo(_, _)
\* the weights of the sorted positions 1, ..., i of feature d, added
WeightUpTo(d, i) ==
    IF i = 0 THEN 0 ELSE WeightUpTo(d, i - 1) + SortedWeight(d, i)

\* gain at each split position i of feature d:
\* total weight - cumulative weight up to and including position i
SignedGains(d) ==
    LET total == WeightUpTo(d, NumSamp)
    IN  [i \in 1..NumSamp |-> total - WeightUpTo(d, i)]

\* the largest absolute value of a gain vector
MaxAbs(gv) ==
    CHOOSE m \in { Abs(gv[i]) : i \in DOMAIN gv } :
        \A i \in DOMAIN gv : Abs(gv[i]) <= m

\* the optimal position: the first one of maximal absolute gain
OptPosOf(gv) ==
    LET m == MaxAbs(gv)
    IN  CHOOSE i \in DOMAIN gv :
            /\ Abs(gv[i]) = m
            /\ \A j \in 1..(i - 1) : Abs(gv[j]) # m

\* the per-feature gain of every feature dimension (0-based -> 1-based)
FeatureGains == [d \in 1..NumFea |-> MaxAbs(SignedGains(d - 1))]

\* C5: compute_weak_trainer selects the dimension of largest per-feature
\* gain, and of several dimensions with the largest gain the smallest index
C5_SelectsLargestGain ==
    StumpTrained =>
        LET fg == FeatureGains
            sel == st_selected_indices
        IN  /\ sel \in 0..(NumFea - 1)
            /\ \A d \in 0..(NumFea - 1) :
                  /\ col_res[d + 1].gain = fg[d + 1]
                  /\ fg[d + 1] <= fg[sel + 1]
                  /\ d < sel => fg[d + 1] < fg[sel + 1]

\* two dimensions tie on a non-zero largest gain and the first is selected
C5_Witness ==
    /\ StumpTrained /\ NumFea = 2
    /\ FeatureGains[1] = FeatureGains[2] /\ FeatureGains[1] > 0
    /\ st_selected_indices = 0

\* C6: for every column the threshold is the midpoint between the feature
\* values at the optimal sorted position and at the next one, and the
\* feature value at the optimal position when that is the last sample
\* (thresholds are in half units)
C6_ThresholdMidpoint ==
    StumpTrained =>
        /\ \A d \in 0..(NumFea - 1) :
              LET opt == OptPosOf(SignedGains(d))
              IN  col_res[d + 1].threshold =
                     IF opt = NumSamp
                     THEN 2 * SortedFea(d, NumSamp)
                     ELSE SortedFea(d, opt) + SortedFea(d, opt + 1)
        /\ st_threshold = col_res[st_selected_indices + 1].threshold

\* the selected column's optimal position is neither first nor last and the
\* two feature values around the split differ: a proper midpoint
C6_Witness ==
    /\ StumpTrained /\ NumSamp = 3
    /\ OptPosOf(SignedGains(st_selected_indices)) = 2
    /\ SortedFea(st_selected_indices, 2) < SortedFea(st_selected_indices, 3)
    /\ st_threshold = SortedFea(st_selected_indices, 2)
                        + SortedFea(st_selected_indices, 3)

\* C7: for every column the polarity is -1 when the signed gain at the
\* optimal position is >= 0 (the all-zero case included) and +1 when it is
\* < 0; the trained stump's polarity is never 0
C7_Polarity ==
    /\ StumpTrained =>
          /\ \A d \in 0..(NumFea - 1) :
                LET gv == SignedGains(d)
                IN  col_res[d + 1].polarity =
                       IF gv[OptPosOf(gv)] >= 0 THEN -1 ELSE 1
          /\ st_polarity = col_res[st_selected_indices + 1].polarity
    /\ (weak_trainer = "stump" /\ ncalls >= 1) => st_polarity \in {-1, 1}

\* a call that ends with polarity +1: a negative signed gain at the optimum
C7_Witness ==
    /\ StumpTrained
    /\ LET gv == SignedGains(st_selected_indices)
       IN  gv[OptPosOf(gv)] < 0
    /\ st_polarity = 1

\* C8: get_weak_scores of a trained stump gives each row polarity * (+1 if
\* its selected feature is >= threshold, else -1), always -1 or +1
C8_WeakScores ==
    (weak_trainer = "stump" /\ pc = "scored" /\ ncalls >= 1) =>
        /\ Len(weak_scores) = Len(test_features)
        /\ \A n \in 1..Len(test_features) :
              /\ weak_scores[n] = st_polarity *
                    (IF 2 * test_features[n][st_selected_indices + 1] >= st_threshold
                     THEN 1 ELSE -1)
              /\ weak_scores[n] \in {-1, 1}

\* a row whose selected feature equals the threshold is scored on the +1
\* side, beside a row below the threshold
C8_Witness ==
    /\ weak_trainer = "stump" /\ pc = "scored" /\ ncalls >= 1
    /\ \E n, k \in 1..Len(test_features) :
          /\ 2 * test_features[n][st_selected_indices + 1] = st_threshold
          /\ weak_scores[n] = st_polarity
          /\ 2 * test_features[k][st_selected_indices + 1] < st_threshold
          /\ weak_scores[k] = 0 - st_polarity

\* ------------------------------------------------------ LUT properties
LutTrained == weak_trainer = "lut" /\ pc = "trained"

NumOut == Len(lut_selected_indices)

RECURSIVE SetSum(_, _)
\* the sum of v[x] over the x of the finite set S
SetSum(S, v) ==
    IF S = {} THEN 0
    ELSE LET x == CHOOSE y \in S : TRUE IN v[x] + SetSum(S \ {x}, v)

\* the histogram-gradient of output k on feature d at bucket b for the
\* gradient matrix g: the sum of g[:, k] over the samples of the live call
\* whose feature-d code is b
BucketSumOf(g, k, d, b) ==
    SetSum({ n \in 1..Len(fea) : fea[n][d + 1] = b },
           [n \in 1..Len(fea) |-> g[n][k]])

BucketSum(k, d, b) == BucketSumOf(loss_grad, k, d, b)

\* the separability score of feature d for output k
ScoreOf(g, d, k) ==
    0 - SetSum(0..(lut_num_entries - 1),
               [b \in 0..(lut_num_entries - 1) |-> Abs(BucketSumOf(g, k, d, b))])

Score(d, k) == ScoreOf(loss_grad, d, k)

\* d is the smallest feature index that minimizes sc[d] over 0..NumFea - 1
FirstMinimizer(d, sc) ==
    /\ d \in 0..(NumFea - 1)
    /\ \A e \in 0..(NumFea - 1) : sc[d] <= sc[e]
    /\ \A e \in 0..(d - 1) : sc[d] < sc[e]

\* the gradient matrices that agree with the live call's on output k
SameOutputColumn(k) ==
    { g \in Matrices(Len(fea), NumOut, (-MaxGrad)..MaxGrad) :
        \A n \in 1..Len(fea) : g[n][k] = loss_grad[n][k] }

\* C2: after every compute_weak_trainer call of a LutTrainer, fresh or
\* reused, table[b, k] is -1 where the histogram-gradient of output k
\* on the selected feature is <= 0 at bucket b, and +1 elsewhere
C2_TableFollowsGradient ==
    (LutTrained /\ lut_selection_type \in SelectionTypes) =>
        \A k \in 1..NumOut : \A b \in 0..(lut_num_entries - 1) :
            lut_luts[b][k] =
                IF BucketSum(k, lut_selected_indices[k], b) <= 0 THEN -1 ELSE 1

\* C9: in independent mode the index stored for output k is the smallest
\* feature index minimizing Score(d, k), whatever the gradients of the
\* other outputs are
C9_IndependentSelection ==
    (LutTrained /\ lut_selection_type = "indep") =>
        \A k \in 1..NumOut :
            /\ FirstMinimizer(lut_selected_indices[k],
                              [d \in 0..(NumFea - 1) |-> Score(d, k)])
            /\ \A g \in SameOutputColumn(k) :
                  SelectIndep(compute_fgrad(g, fea, lut_num_entries), NumOut)[k]
                     = lut_selected_indices[k]

\* two outputs end with different feature indices, the second on a tie
C9_Witness ==
    /\ LutTrained /\ lut_selection_type = "indep"
    /\ NumOut = 2 /\ NumFea = 2
    /\ lut_selected_indices[1] = 1 /\ lut_selected_indices[2] = 0
    /\ Score(0, 2) = Score(1, 2) /\ Score(0, 2) < 0

\* C10: in shared mode one feature index, the smallest minimizing the sum
\* of Score(d, k) over the outputs, is stored for every output, and the
\* table column of each output is written from that output's own
\* histogram-gradient on that feature
C10_SharedSelection ==
    (LutTrained /\ lut_selection_type = "shared") =>
        /\ FirstMinimizer(lut_selected_indices[1],
               [d \in 0..(NumFea - 1) |->
                   SetSum(1..NumOut, [k \in 1..NumOut |-> Score(d, k)])])
        /\ \A k \in 1..NumOut :
              /\ lut_selected_indices[k] = lut_selected_indices[1]
              /\ \A b \in 0..(lut_num_entries - 1) :
                    /\ fea_grad[b][k] = BucketSum(k, lut_selected_indices[1], b)
                    /\ fea_grad[b][k] <= 0 => lut_luts[b][k] = -1
                    /\ (fea_grad[b][k] > 0 /\ ncalls = 1) => lut_luts[b][k] = 1

\* feature 1 is shared by two outputs although output 1 alone would take
\* feature 0, and the two table columns differ
C10_Witness ==
    /\ LutTrained /\ lut_selection_type = "shared"
    /\ NumOut = 2 /\ NumFea = 2
    /\ lut_selected_indices = <<1, 1>>
    /\ Score(0, 1) <= Score(1, 1)
    /\ \E b \in 0..(lut_num_entries - 1) : lut_luts[b][1] # lut_luts[b][2]

\* ------------------------------------------------- ensemble properties
\* the stored weak machine and the weight of every round have one entry
\* per output, and there are as many of each as rounds have completed
C3_Aligned ==
    state # "off" =>
        /\ Len(weak_machines) = ncalls
        /\ Len(weights) = ncalls
        /\ ncalls <= number_of_rounds
        /\ \A r \in 1..ncalls :
              /\ Len(weights[r]) = BoostOutputs
              /\ weak_machines[r].kind = weak_trainer
              /\ weak_machines[r].kind = "lut" =>
                    Len(weak_machines[r].selected_indices) = BoostOutputs
        /\ state = "INIT" => ncalls = 0
        /\ state = "DONE" => ncalls = number_of_rounds

\* a step keeps every pair of the ensemble in place and adds at most one
\* pair, at the end, with the round that completes
C3_AppendOnly ==
    /\ Len(weak_machines') = Len(weak_machines) + (ncalls' - ncalls)
    /\ ncalls' - ncalls \in {0, 1}
    /\ \A r \in 1..Len(weak_machines) :
          /\ weak_machines'[r] = weak_machines[r]
          /\ weights'[r] = weights[r]
    /\ state = "DONE" => (weak_machines' = weak_machines /\ weights' = weights)

\* C3: in every state of a training run the ensemble holds one (weak
\* machine, weight) pair per completed round, pairs are only ever appended
\* at the end, and at DONE there are exactly number_of_rounds of them
C3_EnsembleGrowsByAppend == [](C3_Aligned) /\ [][C3_AppendOnly]_vars

\* a two-round training is DONE with two different weak machines
C3_Witness ==
    /\ state = "DONE" /\ number_of_rounds = 2
    /\ Len(weak_machines) = 2 /\ Len(weights) = 2
    /\ weak_machines[1] # weak_machines[2]

\* the score of a stored weak machine on one feature row for output k
RowScore(m, row, k) ==
    IF m.kind = "stump"
    THEN m.polarity * (IF 2 * row[m.selected_indices + 1] >= m.threshold
                       THEN 1 ELSE -1)
    ELSE m.luts[row[m.selected_indices[k] + 1]][k]

FieldsOfReturned == IF weak_trainer = "stump" THEN StumpSelf ELSE LutSelf

\* C1: the machine returned by one compute_weak_trainer call is not
\* changed by the next call: its fields, and so its get_weak_scores, are
\* after the next call what they were when it was returned
C1_ReturnedMachineUnchanged ==
    (pc = "trained" /\ ncalls >= 2 /\ returned = "self") =>
        /\ FieldsOfReturned = prev_machine
        /\ weak_trainer = "stump" =>
              \A t \in Matrices(1, MaxFea, 0..MaxVal) :
                  StumpScores(st_threshold, st_polarity, st_selected_indices, t)
                     = StumpScores(prev_machine.threshold, prev_machine.polarity,
                                   prev_machine.selected_indices, t)

\* C11: a selection_type outside {independent, shared} is rejected when the
\* LutTrainer is constructed: no constructed trainer has another selection
\* type, and so no compute_weak_trainer call ever completes on one
C11_RejectsUnknownSelectionType ==
    /\ (weak_trainer = "lut" /\ lut_selection_type # "none") =>
          lut_selection_type \in SelectionTypes
    /\ (weak_trainer = "lut" /\ ncalls >= 1) =>
          lut_selection_type \in SelectionTypes

\* C12: a feature code outside 0..num_entries - 1 ends compute_weak_trainer
\* and get_weak_scores in an error: a call that completed (a machine or
\* scores returned) read only codes in range
C12_FailsFastOnBadCode ==
    weak_trainer = "lut" =>
        /\ pc = "trained" =>
              \A n \in 1..Len(fea) : \A d \in 1..Len(fea[n]) :
                  fea[n][d] \in 0..(lut_num_entries - 1)
        /\ pc = "scored" =>
              \A c \in CodesRead(lut_selected_indices, test_features) :
                  c \in 0..(lut_num_entries - 1)

\* the gradient of the last compute_weak_trainer call is zero everywhere
ZeroStumpGradient == \A n \in 1..NumSamp : loss_grad[n] = 0
ZeroLutGradient ==
    \A n \in 1..NumSamp : \A k \in 1..Len(loss_grad[n]) : loss_grad[n][k] = 0

\* C13: on an all-zero gradient both trainers complete with a well-defined
\* machine. The stump has feature index 0, polarity -1 and the threshold
\* rule applied at the first sorted position (the midpoint of the two
\* smallest values of feature 0, the value itself when N = 1), whatever
\* order argsort gives to equal values; a freshly constructed LutTrainer
\* has selected index 0 for every output and every table entry -1
C13_DegenerateRound ==
    /\ (StumpTrained /\ ZeroStumpGradient) =>
          /\ st_selected_indices = 0
          /\ st_polarity = -1
          /\ st_threshold = IF NumSamp = 1 THEN 2 * SortedFea(0, 1)
                            ELSE SortedFea(0, 1) + SortedFea(0, 2)
          /\ \A sid \in ColumnArgSorts(fea, NumFea) :
                Stump_compute_weak_trainer(fea, loss_grad, sid) = StumpSelf
    /\ (LutTrained /\ ncalls = 1 /\ ZeroLutGradient) =>
          /\ \A k \in 1..NumOut : lut_selected_indices[k] = 0
          /\ \A b \in DOMAIN lut_luts : \A k \in 1..NumOut : lut_luts[b][k] = -1
          /\ Lut_compute_weak_trainer(fea, loss_grad, lut_num_entries,
                lut_selection_type, LutOnes(lut_num_entries, NumOut),
                LutZeros(NumOut)).luts = lut_luts

\* a stump trained on a zero gradient over three samples and two features,
\* with equal values of feature 0 that argsort may order either way
C13_Witness ==
    /\ StumpTrained /\ ZeroStumpGradient
    /\ NumSamp = 3 /\ NumFea = 2
    /\ fea[1][1] = fea[2][1] /\ fea[3][1] # fea[1][1]
    /\ fea[1][2] # fea[2][2]

LutScored == weak_trainer = "lut" /\ pc = "scored"

\* the matrices of the shape of test_features that agree with it on the
\* selected columns
SameSelectedColumns ==
    { t \in Matrices(Len(test_features), Len(test_features[1]),
                     0..(lut_num_entries - 1)) :
        \A n \in 1..Len(t) : \A k \in 1..NumOut :
            t[n][lut_selected_indices[k] + 1]
               = test_features[n][lut_selected_indices[k] + 1] }

\* the scores returned are an N x K array with entry (n, k) the table entry
\* of output k at the code of the feature selected for k, the same for
\* every matrix with these selected columns, and -1 or +1 once a
\* compute_weak_trainer call has completed
C14_ScoresInv ==
    LutScored =>
        /\ Len(weak_scores) = Len(test_features)
        /\ \A n \in 1..Len(test_features) :
              /\ Len(weak_scores[n]) = NumOut
              /\ \A k \in 1..NumOut :
                    /\ weak_scores[n][k] =
                          lut_luts[test_features[n][lut_selected_indices[k] + 1]][k]
                    /\ ncalls >= 1 => weak_scores[n][k] \in {-1, 1}
        /\ \A t \in SameSelectedColumns :
              LutScores(lut_luts, lut_selected_indices, t) = weak_scores

\* a step that returns scores leaves the table and the selected indices
C14_ScoresStep == (LutScored' /\ ~LutScored) => UNCHANGED lut

\* C14: get_weak_scores returns the N x K array with entry (n, k) equal to
\* table[features[n, selected_indices[k]], k], reads only the selected
\* columns, leaves the table and the selected indices unchanged, and after
\* a first training call returns only -1 and +1
C14_WeakScores == [] C14_ScoresInv /\ [][C14_ScoresStep]_vars

\* scores of two outputs read from different columns of a two-sample
\* matrix, after a training call, with both values among them
C14_Witness ==
    /\ LutScored /\ ncalls >= 1
    /\ NumOut = 2 /\ Len(test_features) = 2
    /\ lut_selected_indices[1] # lut_selected_indices[2]
    /\ test_features[1] # test_features[2]
    /\ weak_scores[1][1] # weak_scores[1][2]
    /\ weak_scores[1][1] # weak_scores[2][1]

\* the selection type the trainer was not constructed with
OtherSelectionType == IF lut_selection_type = "indep" THEN "shared" ELSE "indep"

\* the feature matrices get_weak_scores takes with the given selected indices
ScorableMatrices(selected) ==
    UNION { Matrices(N, D, 0..(lut_num_entries - 1)) :
              N \in 1..MaxLutSamp,
              D \in { D \in 1..MaxFea : \A k \in DOMAIN selected : selected[k] < D } }

\* C15: with one output, a fresh trainer of the other selection type ends
\* compute_weak_trainer on the same features and gradient with the same
\* selected index and the same table, and scores every matrix the same
C15_SingleOutputEquivalence ==
    (LutTrained /\ ncalls = 1 /\ NumOut = 1) =>
        LET m == Lut_compute_weak_trainer(fea, loss_grad, lut_num_entries,
                    OtherSelectionType, LutOnes(lut_num_entries, 1), LutZeros(1))
        IN  /\ m.selected_indices = lut_selected_indices
            /\ m.luts = lut_luts
            /\ \A t \in ScorableMatrices(lut_selected_indices) \cup
                         ScorableMatrices(m.selected_indices) :
                  LutScores(m.luts, m.selected_indices, t)
                     = LutScores(lut_luts, lut_selected_indices, t)

\* one output and two features of equal, nonzero score: the first is taken
C15_Witness ==
    /\ LutTrained /\ ncalls = 1 /\ NumOut = 1
    /\ NumFea = 2 /\ lut_num_entries = 2
    /\ Score(0, 1) = Score(1, 1) /\ Score(0, 1) < 0
    /\ lut_selected_indices[1] = 0
    /\ lut_luts[0][1] # lut_luts[1][1]

\* the weights (-gradient) of the samples the stump of feature d puts on its
\* ">= threshold" side, added
WeightAtOrAbove(d) ==
    SetSum({ n \in 1..NumSamp : 2 * fea[n][d + 1] >= col_res[d + 1].threshold },
           [n \in 1..NumSamp |-> 0 - loss_grad[n]])

\* C16: for every column the gain compute_thresh reports is the gain of the
\* stump it returns: the absolute sum of -gradient over the samples whose
\* feature value is >= the returned threshold, and the returned polarity
\* times the signed sum is minus the gain
C16_GainOfReturnedStump ==
    StumpTrained =>
        \A d \in 0..(NumFea - 1) :
            /\ col_res[d + 1].gain = Abs(WeightAtOrAbove(d))
            /\ col_res[d + 1].polarity * WeightAtOrAbove(d)
                  = 0 - col_res[d + 1].gain

\* every table entry is +1 until the first compute_weak_trainer call
C17_FreshTable ==
    (weak_trainer = "lut" /\ ncalls = 0) =>
        \A b \in DOMAIN lut_luts : \A k \in DOMAIN lut_luts[b] : lut_luts[b][k] = 1

\* no step takes an entry from -1 to another value, or writes +1
C17_TableStep ==
    weak_trainer = "lut" =>
        /\ DOMAIN lut_luts' = DOMAIN lut_luts
        /\ \A b \in DOMAIN lut_luts : \A k \in DOMAIN lut_luts[b] :
              /\ lut_luts[b][k] = -1 => lut_luts'[b][k] = -1
              /\ lut_luts'[b][k] = 1 => lut_luts[b][k] = 1

\* C17: over any sequence of compute_weak_trainer calls on one LutTrainer
\* the table only moves from +1 to -1: all entries are +1 after
\* construction, an entry that is -1 stays -1, and no call writes +1
C17_TableOnlyFalls == [] C17_FreshTable /\ [][C17_TableStep]_vars

\* after a second call an entry is still -1 although the call's
\* histogram-gradient at that entry is positive
C17_Witness ==
    /\ LutTrained /\ ncalls = 2
    /\ \E b \in DOMAIN lut_luts : \E k \in 1..NumOut :
          lut_luts[b][k] = -1 /\ fea_grad[b][k] > 0

\* C18: in every column the signed gain at the last sorted position is 0,
\* the optimal position is the last one only when N = 1, for N >= 2 the
\* threshold is the midpoint of the values at the optimal position and the
\* next one, and the reported gain is the largest absolute weight of the
\* samples after a sorted position: the weight of all N samples is not
\* among the candidates
C18_LastPositionNeverOptimal ==
    StumpTrained =>
        \A d \in 0..(NumFea - 1) :
            LET gv == SignedGains(d)
                opt == OptPosOf(gv)
            IN  /\ gv[NumSamp] = 0
                /\ opt = NumSamp => NumSamp = 1
                /\ NumSamp >= 2 =>
                      /\ opt < NumSamp
                      /\ col_res[d + 1].threshold
                            = SortedFea(d, opt) + SortedFea(d, opt + 1)
                /\ col_res[d + 1].gain = MaxAbs(gv)
                /\ \E i \in 1..NumSamp :
                      col_res[d + 1].gain
                         = Abs(WeightUpTo(d, NumSamp) - WeightUpTo(d, i))

\* three samples whose total weight is larger in absolute value than the
\* gain reported for the selected column
C18_Witness ==
    /\ StumpTrained /\ NumSamp = 3
    /\ Abs(WeightUpTo(st_selected_indices, NumSamp))
          > col_res[st_selected_indices + 1].gain
    /\ col_res[st_selected_indices + 1].gain > 0

====
